---- MODULE Spec2Model ----
(***************************************************************************)
(* Model of two AutoPkg processors of primalcurve-recipes:                 *)
(*                                                                         *)
(*   SharedProcessors/AsarVersioner.py      reads the version out of the   *)
(*       package.json embedded in an Electron asar archive;                *)
(*   SharedProcessors/PackageInfoReader.py  searches a PackageInfo XML     *)
(*       tree for a key.                                                   *)
(*                                                                         *)
(* An archive is a sequence of bytes (integers 0..255).  JSON texts are    *)
(* ASCII byte sequences and are parsed by a recursive-descent parser that  *)
(* covers objects, strings, non-negative integers and null, which is the   *)
(* part of JSON the archives built below can contain (they hold no         *)
(* whitespace, backslash, sign, fraction or exponent).                     *)
(***************************************************************************)
EXTENDS Integers, Sequences, FiniteSets, TLC

(***************************************************************************)
(* Bounds of the model.                                                    *)
(***************************************************************************)
\* the data section starts with 0..MaxPad filler bytes before the entry
MaxPad == 2
\* the archive file may lose 0..MaxCut bytes at its end
MaxCut == 2
\* a PackageInfo tree has 1..MaxNodes elements
MaxNodes == 4

(***************************************************************************)
(* Byte strings used by the program and by the archives.                   *)
(***************************************************************************)
\* the text UNKNOWN_VERSION
UNKNOWN_VERSION == <<85, 78, 75, 78, 79, 87, 78, 95, 86, 69, 82, 83, 73, 79, 78>>

\* "files", "offset", "size": the header keys the extractor reads
K_files == <<102, 105, 108, 101, 115>>
K_offset == <<111, 102, 102, 115, 101, 116>>
K_size == <<115, 105, 122, 101>>
\* "version": the default of the input variable version_key
K_version == <<118, 101, 114, 115, 105, 111, 110>>
\* "name": a key of package.json other than the version
K_name == <<110, 97, 109, 101>>

\* entry names: "a", "d", "d/a", "z"
N_a == <<97>>
N_d == <<100>>
N_d_a == <<100, 47, 97>>
N_z == <<122>>

\* ASCII codes of the JSON punctuation " , : { } and of the literal null
QUOTE == <<34>>
COMMA == <<44>>
COLON == <<58>>
LBRACE == <<123>>
RBRACE == <<125>>
T_null == <<110, 117, 108, 108>>

(***************************************************************************)
(* Python values.  A JSON value is a tagged record; a dict is a function   *)
(* from its keys (byte strings) to values.                                 *)
(***************************************************************************)
None == [t |-> "none"]
Num(n) == [t |-> "num", n |-> n]
Str(s) == [t |-> "str", s |-> s]
Obj(m) == [t |-> "obj", m |-> m]
EmptyDict == [k \in {} |-> None]

IsDigit(b) == b >= 48 /\ b <= 57

At(s, i) == IF i >= 1 /\ i <= Len(s) THEN s[i] ELSE -1

\* str(n) for n >= 0: the decimal digits of n
RECURSIVE Digits(_)
Digits(n) == IF n < 10 THEN <<48 + n>> ELSE Digits(n \div 10) \o <<48 + (n % 10)>>

\* the value of a non-empty run of decimal digits
RECURSIVE DigitsValue(_)
DigitsValue(s) ==
    IF Len(s) = 0 THEN 0
    ELSE 10 * DigitsValue(SubSeq(s, 1, Len(s) - 1)) + (s[Len(s)] - 48)

AllDigits(s) == Len(s) > 0 /\ \A i \in 1..Len(s) : IsDigit(s[i])

(***************************************************************************)
(* json.loads.  ParseValue(s, i) scans one JSON value starting at index i  *)
(* and returns [ok, val, next]: next is the index after the value.         *)
(***************************************************************************)
ParseFail == [ok |-> FALSE, val |-> None, next |-> 0]
ParseOk(v, n) == [ok |-> TRUE, val |-> v, next |-> n]

\* the end of the digit run that starts at i
RECURSIVE DigitRunEnd(_, _)
DigitRunEnd(s, i) == IF IsDigit(At(s, i + 1)) THEN DigitRunEnd(s, i + 1) ELSE i

\* the index of the closing quote of the string whose opening quote is before i
RECURSIVE ClosingQuote(_, _)
ClosingQuote(s, i) ==
    IF i > Len(s) THEN 0
    ELSE IF s[i] = 34 THEN i
    ELSE IF s[i] < 32 \/ s[i] > 127 THEN 0
    ELSE ClosingQuote(s, i + 1)

ParseString(s, i) ==
    LET j == ClosingQuote(s, i + 1)
    IN  IF j = 0 THEN ParseFail ELSE ParseOk(Str(SubSeq(s, i + 1, j - 1)), j + 1)

ParseNumber(s, i) ==
    \* a leading 0 is a number of its own: the digits after it are extra data
    IF s[i] = 48 THEN ParseOk(Num(0), i + 1)
    ELSE LET e == DigitRunEnd(s, i)
         IN  ParseOk(Num(DigitsValue(SubSeq(s, i, e))), e + 1)

RECURSIVE ParseValue(_, _)
RECURSIVE ParseMembers(_, _, _)

\* the members of an object from index i on, added to m; a repeated key keeps
\* its last value
ParseMembers(s, i, m) ==
    IF At(s, i) # 34 THEN ParseFail
    ELSE LET k == ParseString(s, i)
         IN  IF ~k.ok \/ At(s, k.next) # 58 THEN ParseFail
             ELSE LET v == ParseValue(s, k.next + 1)
                  IN  IF ~v.ok THEN ParseFail
                      ELSE LET m2 == (k.val.s :> v.val) @@ m
                           IN  IF At(s, v.next) = 44
                                   THEN ParseMembers(s, v.next + 1, m2)
                               ELSE IF At(s, v.next) = 125
                                   THEN ParseOk(Obj(m2), v.next + 1)
                               ELSE ParseFail

ParseValue(s, i) ==
    LET c == At(s, i)
    IN  IF c = 34 THEN ParseString(s, i)
        ELSE IF IsDigit(c) THEN ParseNumber(s, i)
        ELSE IF c = 123
            THEN IF At(s, i + 1) = 125 THEN ParseOk(Obj(EmptyDict), i + 2)
                 ELSE ParseMembers(s, i + 1, EmptyDict)
        ELSE IF i >= 1 /\ i + 3 <= Len(s) /\ SubSeq(s, i, i + 3) = T_null
            THEN ParseOk(None, i + 4)
        ELSE ParseFail

\* bytes.decode('utf-8'): a byte above 127 that starts no valid sequence fails
\* (the archives below hold only the byte 255 above 127, which never does)
Utf8Ok(s) == \A i \in 1..Len(s) : s[i] <= 127

\* json.loads(s): [err, val]; err is "" or the name of the exception raised
json_loads(s) ==
    IF ~Utf8Ok(s) THEN [err |-> "UnicodeDecodeError", val |-> None]
    ELSE LET r == ParseValue(s, 1)
         IN  IF r.ok /\ r.next = Len(s) + 1 THEN [err |-> "", val |-> r.val]
             ELSE [err |-> "JSONDecodeError", val |-> None]

(***************************************************************************)
(* Python helpers used by AsarVersioner.                                   *)
(***************************************************************************)
Min(a, b) == IF a < b THEN a ELSE b

\* an exception: its type and the texts its message is built from, outermost
\* first; NoError stands for "nothing raised"
NoError == [type |-> "", msg |-> <<>>]
Raise(type, msg) == [type |-> type, msg |-> msg]
Raised(e) == e.type # ""

\* file.read(n) at position pos: at most n bytes, all remaining when n < 0
file_read(bytes, pos, n) ==
    IF pos >= Len(bytes) THEN <<>>
    ELSE IF n < 0 THEN SubSeq(bytes, pos + 1, Len(bytes))
    ELSE SubSeq(bytes, pos + 1, Min(pos + n, Len(bytes)))

\* struct.unpack('I', b): a 1-tuple holding the unsigned value of exactly 4
\* bytes in native order (little-endian on the machines AutoPkg runs on),
\* struct.error for any other length
struct_unpack_I(b) ==
    IF Len(b) # 4 THEN [err |-> Raise("struct.error", <<"struct.error">>), val |-> <<>>]
    ELSE [err |-> NoError,
          val |-> <<b[1] + 256 * b[2] + 65536 * b[3] + 16777216 * b[4]>>]

\* header_size[0] - 8
header_length(unpacked) == unpacked[1] - 8

\* lookup_package_json without its try/except: the raw exception leaves it
lookup_uncategorized(header, name) ==
    IF header.t = "obj" /\ K_files \in DOMAIN header.m /\ header.m[K_files].t = "obj"
          /\ name \in DOMAIN header.m[K_files].m
        THEN [err |-> NoError, val |-> header.m[K_files].m[name]]
        ELSE [err |-> Raise("KeyError", <<"KeyError">>), val |-> None]

\* the "files" map of a directory entry, EmptyDict for anything else
FilesOf(node) ==
    IF node.t = "obj" /\ K_files \in DOMAIN node.m /\ node.m[K_files].t = "obj"
        THEN node.m[K_files].m
        ELSE EmptyDict

\* the last component of a name: what follows its last "/"
RECURSIVE BaseName(_)
BaseName(name) ==
    IF \E i \in 1..Len(name) : name[i] = 47
        THEN BaseName(Tail(name))
        ELSE name

\* lookup_package_json resolving the name in the directories too: a name not
\* at the top level is looked up, by its last component, one level down
lookup_descending(header, name) ==
    LET top == FilesOf(header)
        below == {d \in DOMAIN top : BaseName(name) \in DOMAIN FilesOf(top[d])}
    IN  IF name \in DOMAIN top THEN [err |-> NoError, val |-> top[name]]
        ELSE IF below # {}
            THEN [err |-> NoError,
                  val |-> FilesOf(top[CHOOSE d \in below : TRUE])[BaseName(name)]]
        ELSE [err |-> Raise("ProcessorError", <<"Can't find package JSON", "KeyError">>),
              val |-> None]

\* json_header["files"][self.env["package_json"]] inside try/except Exception
lookup_package_json(header, name) ==
    LET found(e) == [err |-> NoError, val |-> e]
        failed(x) == [err |-> Raise("ProcessorError", <<"Can't find package JSON", x>>),
                      val |-> None]
    IN  IF header.t # "obj" THEN failed("TypeError")
        ELSE IF K_files \notin DOMAIN header.m THEN failed("KeyError")
        ELSE LET files == header.m[K_files]
             IN  IF files.t # "obj" THEN failed("TypeError")
                 ELSE IF name \notin DOMAIN files.m THEN failed("KeyError")
                 ELSE found(files.m[name])

\* d.get(k) in place of d.get(k, default)
dict_get_no_default(d, k, default) == IF k \in DOMAIN d.m THEN d.m[k] ELSE None

\* d.get(k, default) on a dict
dict_get(d, k, default) == IF k \in DOMAIN d.m THEN d.m[k] ELSE default

\* obj.get(k): AttributeError when obj is no dict
py_get(obj, k) ==
    IF obj.t # "obj" THEN [err |-> Raise("AttributeError", <<"AttributeError">>), val |-> None]
    ELSE [err |-> NoError, val |-> dict_get(obj, k, None)]

\* int(x) for x a str of decimal digits or an int
py_int(x) ==
    IF x.t = "num" THEN [err |-> NoError, val |-> x.n]
    ELSE IF x.t = "str"
        THEN IF AllDigits(x.s) THEN [err |-> NoError, val |-> DigitsValue(x.s)]
             ELSE [err |-> Raise("ValueError", <<"ValueError">>), val |-> 0]
    ELSE [err |-> Raise("TypeError", <<"TypeError">>), val |-> 0]

\* the entry's offset taken as a position in the file
offset_from_file_start(offset, base) == offset

\* int(package_json.get("offset")) + base_offset
absolute_offset(offset, base) == offset + base

\* the argument of asar_file.read(package_json.get("size")): read(None) reads
\* to the end of the file like read(-1); a str or a dict is a TypeError
read_length(size) ==
    IF size.t = "num" THEN [err |-> NoError, val |-> size.n]
    ELSE IF size.t = "none" THEN [err |-> NoError, val |-> -1]
    ELSE [err |-> Raise("TypeError", <<"TypeError">>), val |-> 0]

\* get_asar_info: except Exception as error: raise ProcessorError(f"...{error}")
get_asar_info_except(e) ==
    Raise("ProcessorError", <<"Can't extract package info">> \o e.msg)

\* main with no except clause of its own
main_reraise(e) == e

\* AsarVersioner.main:
\* except ProcessorError: raise / except Exception as ex: raise ProcessorError(ex)
main_except(e) ==
    IF e.type = "ProcessorError" THEN e ELSE Raise("ProcessorError", e.msg)

\* PackageInfoReader.main: the same two except clauses
pkg_main_except(e) ==
    IF e.type = "ProcessorError" THEN e ELSE Raise("ProcessorError", e.msg)

(***************************************************************************)
(* The archives the model reads.  An archive is laid out as the opener     *)
(* expects it: 4 framing bytes, the 4-byte size field, 8 padding bytes,    *)
(* the JSON header, then the data section (filler bytes, then the entry).  *)
(***************************************************************************)
JsonStr(s) == QUOTE \o s \o QUOTE
Member(k, text) == JsonStr(k) \o COLON \o text
Braces(text) == LBRACE \o text \o RBRACE

\* {"size":N,"offset":"K"}
EntryText(N, K) ==
    Braces(Member(K_size, Digits(N)) \o COMMA \o Member(K_offset, JsonStr(Digits(K))))

HeaderKinds == {"flat", "nested", "nofiles", "scalar", "atom"}

\* flat:    {"files":{"a":{"size":N,"offset":"K"}}}
\* nested:  {"files":{"d":{"files":{"a":{"size":N,"offset":"K"}}}}}
\* nofiles: {}
\* scalar:  {"files":{"a":1}}
\* atom:    12
HeaderText(kind, N, K) ==
    CASE kind = "flat" ->
            Braces(Member(K_files, Braces(Member(N_a, EntryText(N, K)))))
      [] kind = "nested" ->
            Braces(Member(K_files, Braces(Member(N_d,
                Braces(Member(K_files, Braces(Member(N_a, EntryText(N, K)))))))))
      [] kind = "nofiles" -> Braces(<<>>)
      [] kind = "scalar" -> Braces(Member(K_files, Braces(Member(N_a, <<49>>))))
      [] kind = "atom" -> <<49, 50>>

\* what the embedded file holds: its bytes and, when they are JSON, the value
\*   {"version":"1"}   {"name":"x"}   12   null   two bytes that are no UTF-8
Contents ==
    { [text |-> Braces(Member(K_version, JsonStr(<<49>>))), json |-> TRUE,
       value |-> Obj(K_version :> Str(<<49>>))],
      [text |-> Braces(Member(K_name, JsonStr(<<120>>))), json |-> TRUE,
       value |-> Obj(K_name :> Str(<<120>>))],
      [text |-> <<49, 50>>, json |-> TRUE, value |-> Num(12)],
      [text |-> T_null, json |-> TRUE, value |-> None],
      [text |-> <<255, 255>>, json |-> FALSE, value |-> None] }

\* n as 4 little-endian bytes
LE32(n) == <<n % 256, (n \div 256) % 256, (n \div 65536) % 256, (n \div 16777216) % 256>>

Zeros(n) == [i \in 1..n |-> 0]

Archive(kind, K, content, V) ==
    <<4, 0, 0, 0>> \o LE32(V) \o Zeros(8)
        \o HeaderText(kind, Len(content.text), K) \o Zeros(K) \o content.text

\* the size field of a well-formed archive: the header's length plus 8
TrueSize(kind, K, content) == Len(HeaderText(kind, Len(content.text), K)) + 8

\* size fields tried: the right one, too small by one, too large by one, too
\* large by 256, and the values around the 8 bytes the opener subtracts
SizeFields(v) == {v, v - 1, v + 1, v + 256, 0, 7, 8}

\* file lengths tried: the whole archive less 0..MaxCut bytes, and files that
\* end inside the size field or right after it
Lengths(full) == {full - c : c \in 0..MaxCut} \cup {0, 6, 8}

EntryNames == {N_a, N_d, N_d_a, N_z}
VersionKeys == {K_version, K_name}

Unset == [t |-> "unset"]
NoBuild == [kind |-> "", K |-> 0, N |-> 0, V |-> 0, trueV |-> 0, json |-> FALSE,
            value |-> None, full |-> 0]

VARIABLES
    pc,            \* where the run is
    env,           \* the processor's variables: package_json, version_key, version
    fs,            \* the file at input_asar_path: [readable, bytes]
    built,         \* how the archive was built (not read by the program)
    asar_file,     \* the handle: [state, pos]
    io_log,        \* the seeks and reads issued on the handle, in order
    header_size,   \* the tuple unpacked from the size field
    json_header,
    base_offset,
    package_json,  \* the header's entry for env.package_json
    entry_bytes,   \* the bytes read for the entry
    asar_dict,     \* what get_asar_info returned
    err,           \* the exception in flight, NoError when none
    xml,           \* PackageInfoReader: the parsed PackageInfo tree
    target_value   \* PackageInfoReader: main's local target_value

vars == <<pc, env, fs, built, asar_file, io_log, header_size, json_header,
          base_offset, package_json, entry_bytes, asar_dict, err, xml, target_value>>

asar_vars == <<fs, built, asar_file, io_log, header_size, json_header,
               base_offset, package_json, entry_bytes, asar_dict>>

InitEnv(name, key) == [package_json |-> name, version_key |-> key, version |-> Unset]

InitAsar ==
    /\ pc = "main"
    /\ \E name \in EntryNames, key \in VersionKeys : env = InitEnv(name, key)
    /\ \/ /\ fs = [readable |-> FALSE, bytes |-> <<>>]
          /\ built = NoBuild
       \/ \E kind \in HeaderKinds, K \in 0..MaxPad, content \in Contents :
            \E V \in SizeFields(TrueSize(kind, K, content)) :
              LET whole == Archive(kind, K, content, V)
              IN  \E n \in Lengths(Len(whole)) :
                    /\ fs = [readable |-> TRUE, bytes |-> SubSeq(whole, 1, n)]
                    /\ built = [kind |-> kind, K |-> K, N |-> Len(content.text),
                                V |-> V, trueV |-> TrueSize(kind, K, content),
                                json |-> content.json, value |-> content.value,
                                full |-> Len(whole)]
    /\ asar_file = [state |-> "none", pos |-> 0]
    /\ io_log = <<>>
    /\ header_size = <<>>
    /\ json_header = Unset
    /\ base_offset = 0
    /\ package_json = Unset
    /\ entry_bytes = <<>>
    /\ asar_dict = Unset
    /\ err = NoError
    /\ xml = <<>>
    /\ target_value = Unset

Seek(n) == [op |-> "seek", arg |-> n]
Read(n) == [op |-> "read", arg |-> n]

(***************************************************************************)
(* AsarVersioner.main, first half: self._read_auto_detect(input_asar_path, *)
(* skip_single_root_dir, self.get_asar_info).  The inherited method        *)
(* resolves the path and either calls the reader on the file, returns None *)
(* (nothing at that path inside the container) or raises.                  *)
(***************************************************************************)
ReadAutoDetect ==
    /\ pc = "main"
    /\ \/ pc' = "open" /\ UNCHANGED <<asar_dict, err>>
       \/ pc' = "main_result" /\ asar_dict' = None /\ UNCHANGED err
       \/ /\ pc' = "main_result"
          /\ \E type \in {"ProcessorError", "OSError"} :
                err' = Raise(type, <<"_read_auto_detect">>)
          /\ UNCHANGED asar_dict
    /\ UNCHANGED <<xml, target_value, env, fs, built, asar_file, io_log, header_size, json_header,
                   base_offset, package_json, entry_bytes>>

(***************************************************************************)
(* _asar_opener.  It is called before get_asar_info's try statement: what  *)
(* it raises leaves get_asar_info at once, through no except or finally.   *)
(***************************************************************************)
\* asar_file = open(path, 'rb') / except: raise ProcessorError("Can't read ...")
OpenerOpen ==
    /\ pc = "open"
    /\ IF fs.readable
          THEN /\ asar_file' = [state |-> "open", pos |-> 0]
               /\ pc' = "size"
               /\ UNCHANGED err
          ELSE /\ err' = Raise("ProcessorError", <<"Can't read", "OSError">>)
               /\ pc' = "main_result"
               /\ UNCHANGED asar_file
    /\ UNCHANGED <<xml, target_value, env, fs, built, io_log, header_size, json_header, base_offset,
                   package_json, entry_bytes, asar_dict>>

\* asar_file.seek(4); header_size = struct.unpack('I', asar_file.read(4));
\* if len(header_size) <= 0: raise ProcessorError(f"... {error}"), where the
\* name error is unbound
OpenerSize ==
    /\ pc = "size"
    /\ LET got == file_read(fs.bytes, 4, 4)
           u == struct_unpack_I(got)
       IN  /\ io_log' = io_log \o <<Seek(4), Read(4)>>
           /\ asar_file' = [asar_file EXCEPT !.pos = 4 + Len(got)]
           /\ IF Raised(u.err)
                 THEN /\ err' = u.err
                      /\ pc' = "main_result"
                      /\ UNCHANGED header_size
              ELSE IF Len(u.val) <= 0
                 THEN /\ err' = Raise("NameError", <<"NameError">>)
                      /\ pc' = "main_result"
                      /\ UNCHANGED header_size
              ELSE /\ header_size' = u.val
                   /\ pc' = "header"
                   /\ UNCHANGED err
    /\ UNCHANGED <<xml, target_value, env, fs, built, json_header, base_offset, package_json,
                   entry_bytes, asar_dict>>

\* header_size = header_size[0] - 8; asar_file.seek(asar_file.tell() + 8);
\* header = asar_file.read(header_size).decode('utf-8');
\* json_header = json.loads(header); base_offset = asar_file.tell()
OpenerHeader ==
    /\ pc = "header"
    /\ LET n == header_length(header_size)
           at == asar_file.pos + 8
           got == file_read(fs.bytes, at, n)
           j == json_loads(got)
       IN  /\ io_log' = io_log \o <<Seek(at), Read(n)>>
           /\ asar_file' = [asar_file EXCEPT !.pos = at + Len(got)]
           /\ IF j.err # ""
                 THEN /\ err' = Raise(j.err, <<j.err>>)
                      /\ pc' = "main_result"
                      /\ UNCHANGED <<json_header, base_offset>>
                 ELSE /\ json_header' = j.val
                      /\ base_offset' = at + Len(got)
                      /\ pc' = "lookup"
                      /\ UNCHANGED err
    /\ UNCHANGED <<xml, target_value, env, fs, built, header_size, package_json, entry_bytes, asar_dict>>

(***************************************************************************)
(* _extract_package_json, called inside get_asar_info's try statement.     *)
(***************************************************************************)
ExtractLookup ==
    /\ pc = "lookup"
    /\ LET r == lookup_package_json(json_header, env.package_json)
       IN  IF Raised(r.err)
              THEN /\ err' = r.err
                   /\ pc' = "exit"
                   /\ UNCHANGED package_json
              ELSE /\ package_json' = r.val
                   /\ pc' = "read"
                   /\ UNCHANGED err
    /\ UNCHANGED <<xml, target_value, env, fs, built, asar_file, io_log, header_size, json_header,
                   base_offset, entry_bytes, asar_dict>>

\* absolute_offset = int(package_json.get("offset")) + base_offset;
\* asar_file.seek(absolute_offset);
\* return json.loads(asar_file.read(package_json.get("size")))
ExtractRead ==
    /\ pc = "read"
    /\ pc' = "exit"
    /\ LET off == py_get(package_json, K_offset)
           k == IF Raised(off.err) THEN off ELSE py_int(off.val)
           size == IF Raised(k.err) THEN k ELSE read_length(py_get(package_json, K_size).val)
       IN  IF Raised(k.err)
              THEN /\ err' = k.err
                   /\ UNCHANGED <<asar_file, io_log, entry_bytes, asar_dict>>
           ELSE IF Raised(size.err)
              THEN /\ err' = size.err
                   /\ io_log' = Append(io_log, Seek(absolute_offset(k.val, base_offset)))
                   /\ asar_file' = [asar_file EXCEPT !.pos = absolute_offset(k.val, base_offset)]
                   /\ UNCHANGED <<entry_bytes, asar_dict>>
           ELSE LET at == absolute_offset(k.val, base_offset)
                    got == file_read(fs.bytes, at, size.val)
                    j == json_loads(got)
                IN  /\ io_log' = io_log \o <<Seek(at), Read(size.val)>>
                    /\ asar_file' = [asar_file EXCEPT !.pos = at + Len(got)]
                    /\ entry_bytes' = got
                    /\ IF j.err # ""
                          THEN err' = Raise(j.err, <<j.err>>) /\ UNCHANGED asar_dict
                          ELSE asar_dict' = j.val /\ UNCHANGED err
    /\ UNCHANGED <<xml, target_value, env, fs, built, header_size, json_header, base_offset, package_json>>

(***************************************************************************)
(* get_asar_info: the except and finally clauses of its try statement.     *)
(***************************************************************************)
GetAsarInfoExit ==
    /\ pc = "exit"
    /\ pc' = "main_result"
    /\ err' = IF Raised(err) THEN get_asar_info_except(err) ELSE err
    /\ asar_file' = [asar_file EXCEPT !.state = "closed"]
    /\ UNCHANGED <<xml, target_value, env, fs, built, io_log, header_size, json_header, base_offset,
                   package_json, entry_bytes, asar_dict>>

(***************************************************************************)
(* AsarVersioner.main, second half: the result or the exception of         *)
(* _read_auto_detect.                                                      *)
(***************************************************************************)
MainResult ==
    /\ pc = "main_result"
    /\ IF Raised(err)
          THEN /\ err' = main_except(err)
               /\ pc' = "failed"
               /\ UNCHANGED env
       ELSE IF asar_dict = None
          THEN /\ err' = main_except(Raise("ProcessorError", <<"was not found">>))
               /\ pc' = "failed"
               /\ UNCHANGED env
       ELSE IF asar_dict.t # "obj"
          THEN /\ err' = main_except(Raise("AttributeError", <<"AttributeError">>))
               /\ pc' = "failed"
               /\ UNCHANGED env
       ELSE /\ env' = [env EXCEPT !.version =
                            dict_get(asar_dict, env.version_key, Str(UNKNOWN_VERSION))]
            /\ pc' = "done"
            /\ UNCHANGED err
    /\ UNCHANGED <<xml, target_value, fs, built, asar_file, io_log, header_size,
                   json_header, base_offset, package_json, entry_bytes, asar_dict>>

(***************************************************************************)
(* PackageInfoReader.  The tree is a sequence of elements; element 1 is    *)
(* the root (ET.fromstring's result) and every other element names its     *)
(* parent, an earlier element.  The children of an element are the         *)
(* elements naming it, in order.  An element holds its tag, its text (None *)
(* or a str) and its value for the attribute target_key (None when it has  *)
(* no such attribute).                                                     *)
(***************************************************************************)
\* the key searched for ("k") and another tag ("x")
TARGET_KEY == <<107>>
OTHER_TAG == <<120>>

Plain(parent) == [tag |-> OTHER_TAG, text |-> None, attr |-> None, parent |-> parent]

\* what the one marked element of a tree looks like:
\*   <k>v</k>   <k> v </k>   <k> </k>   <k/>   <x k="w"/>   <x k=""/>
Marks == {"tag_text", "tag_padded", "tag_blank", "tag_none", "attr", "attr_empty"}

Marked(mark, parent) ==
    CASE mark = "tag_text" -> [Plain(parent) EXCEPT !.tag = TARGET_KEY, !.text = Str(<<118>>)]
      [] mark = "tag_padded" ->
            [Plain(parent) EXCEPT !.tag = TARGET_KEY, !.text = Str(<<32, 118, 32>>)]
      [] mark = "tag_blank" -> [Plain(parent) EXCEPT !.tag = TARGET_KEY, !.text = Str(<<32>>)]
      [] mark = "tag_none" -> [Plain(parent) EXCEPT !.tag = TARGET_KEY]
      [] mark = "attr" -> [Plain(parent) EXCEPT !.attr = Str(<<119>>)]
      [] mark = "attr_empty" -> [Plain(parent) EXCEPT !.attr = Str(<<>>)]

\* the trees of n elements: every element after the root names an earlier one
Parents(n) == {p \in [1..n -> 0..n] : p[1] = 0 /\ \A i \in 2..n : p[i] >= 1 /\ p[i] < i}

InitPkgInfo ==
    /\ pc = "pkg_main"
    /\ env = [target_key |-> TARGET_KEY, target_value |-> Unset]
    /\ \E n \in 1..MaxNodes : \E p \in Parents(n), at \in 1..n, mark \in Marks :
          xml = [i \in 1..n |-> IF i = at THEN Marked(mark, p[i]) ELSE Plain(p[i])]
    /\ target_value = Unset
    /\ fs = [readable |-> TRUE, bytes |-> <<>>]
    /\ built = NoBuild
    /\ asar_file = [state |-> "none", pos |-> 0]
    /\ io_log = <<>>
    /\ header_size = <<>>
    /\ json_header = Unset
    /\ base_offset = 0
    /\ package_json = Unset
    /\ entry_bytes = <<>>
    /\ asar_dict = Unset
    /\ err = NoError

Init == InitAsar \/ InitPkgInfo

\* the children of element x, in document order
RECURSIVE ChildrenFrom(_, _, _)
ChildrenFrom(tree, x, i) ==
    IF i > Len(tree) THEN <<>>
    ELSE IF tree[i].parent = x THEN <<i>> \o ChildrenFrom(tree, x, i + 1)
    ELSE ChildrenFrom(tree, x, i + 1)

Children(tree, x) == ChildrenFrom(tree, x, 1)

IsSpace(c) == c \in {9, 10, 11, 12, 13, 32}

\* str.strip()
RECURSIVE Strip(_)
Strip(s) ==
    IF Len(s) = 0 THEN s
    ELSE IF IsSpace(s[1]) THEN Strip(Tail(s))
    ELSE IF IsSpace(s[Len(s)]) THEN Strip(SubSeq(s, 1, Len(s) - 1))
    ELSE s

\* the truth value of a str or None
Truthy(v) == v.t = "str" /\ Len(v.s) > 0

\* recursive_element_search(xml_element, target_key): [err, val].  The for
\* loop's body ends in a return, so the loop runs for the first child only;
\* with no child the function returns None.
RECURSIVE recursive_element_search(_, _, _)
recursive_element_search(tree, xml_element, target_key) ==
    LET kids == Children(tree, xml_element)
    IN  IF Len(kids) = 0 THEN [err |-> NoError, val |-> None]
        ELSE LET child_element == kids[1]
                 own == tree[xml_element].attr
                 recurse == recursive_element_search(tree, child_element, target_key)
             IN  IF Truthy(own) THEN [err |-> NoError, val |-> own]
                 ELSE IF tree[child_element].tag = target_key
                     THEN IF tree[child_element].text = None
                             THEN [err |-> Raise("AttributeError", <<"AttributeError">>),
                                   val |-> None]
                          ELSE IF Len(Strip(tree[child_element].text.s)) > 0
                             THEN [err |-> NoError,
                                   val |-> Str(Strip(tree[child_element].text.s))]
                          ELSE recurse
                 ELSE recurse

\* PackageInfoReader.main from the parsed tree to the search: the root's own
\* attribute, the root's tag (a statement that names the undefined
\* target_valuechild_element), else the recursive search
PkgInfoSearch ==
    /\ pc = "pkg_main"
    /\ LET root == xml[1].attr
           env1 == IF Truthy(root) THEN [env EXCEPT !.target_value = root] ELSE env
       IN  IF xml[1].tag = env.target_key
              THEN /\ env' = env1
                   /\ target_value' = root
                   /\ err' = pkg_main_except(Raise("NameError", <<"NameError">>))
                   /\ pc' = "failed"
              ELSE LET r == recursive_element_search(xml, 1, env.target_key)
                   IN  /\ env' = env1
                       /\ IF Raised(r.err)
                             THEN /\ err' = pkg_main_except(r.err)
                                  /\ target_value' = root
                                  /\ pc' = "failed"
                             ELSE /\ target_value' = r.val
                                  /\ pc' = "pkg_found"
                                  /\ UNCHANGED err
    /\ UNCHANGED asar_vars
    /\ UNCHANGED xml

\* if not target_value: raise ProcessorError(...); then the output line, which
\* reads self.env['target_value']
PkgInfoResult ==
    /\ pc = "pkg_found"
    /\ IF ~Truthy(target_value)
          THEN /\ err' = pkg_main_except(Raise("ProcessorError", <<"Unable to locate">>))
               /\ pc' = "failed"
       ELSE IF env.target_value = Unset
          THEN /\ err' = pkg_main_except(Raise("KeyError", <<"KeyError">>))
               /\ pc' = "failed"
       ELSE /\ pc' = "done"
            /\ UNCHANGED err
    /\ UNCHANGED <<env, xml, target_value>>
    /\ UNCHANGED asar_vars

Next ==
    \/ ReadAutoDetect
    \/ OpenerOpen
    \/ OpenerSize
    \/ OpenerHeader
    \/ ExtractLookup
    \/ ExtractRead
    \/ GetAsarInfoExit
    \/ MainResult
    \/ PkgInfoSearch
    \/ PkgInfoResult

Spec == Init /\ [][Next]_vars

(***************************************************************************)
(* Properties.                                                             *)
(***************************************************************************)
\* the run is one of AsarVersioner / of PackageInfoReader
IsAsar == "package_json" \in DOMAIN env
IsPkgInfo == "target_key" \in DOMAIN env

\* get_asar_info is over (it returned or raised), or was never called
CallOver == pc \in {"main_result", "done", "failed"}
\* the opener returned its triple
HeaderDecoded == json_header # Unset
\* the lookup in the header is over
LookupOver == HeaderDecoded /\ pc \in {"read", "exit", "main_result", "done", "failed"}
\* the entry's bytes were read
EntryRead == Len(io_log) = 6

\* name is a key of the top-level "files" map of header
HasEntry(header, name) == name \in DOMAIN FilesOf(header)

Member_of(x, seq) == \E i \in 1..Len(seq) : seq[i] = x

\* C1: once get_asar_info is over, an archive handle that was opened is
\* closed, whichever way the call ended.
C1_HandleClosedOnEveryExit ==
    (IsAsar /\ CallOver /\ asar_file.state # "none") => asar_file.state = "closed"

\* C2: a run of main that fails ends with a ProcessorError and leaves
\* env["version"] unset; any exception in flight means version is unset and
\* the run does not end well; version is set only in a run that ended well
\* after the open, the header, the lookup and the entry read all succeeded.
C2_FailuresAreProcessorErrors ==
    IsAsar =>
        /\ pc = "failed" => (err.type = "ProcessorError" /\ env.version = Unset)
        /\ Raised(err) => (env.version = Unset /\ pc # "done")
        /\ pc = "done" => ~Raised(err)
        /\ env.version # Unset =>
              (pc = "done" /\ asar_dict.t = "obj" /\ HeaderDecoded /\ EntryRead)

\* C2 witness: a short size field made struct.unpack raise, and main ended
\* with a ProcessorError carrying it, version unset.
C2_Witness ==
    /\ IsAsar /\ pc = "failed"
    /\ err = Raise("ProcessorError", <<"struct.error">>)
    /\ env.version = Unset

\* C3: when the size field holds V < 8 the opener fails and asks for no read
\* of negative length; when V >= 8 its header read asks for exactly V - 8.
C3_NoNegativeHeaderRead ==
    (IsAsar /\ Len(io_log) >= 4) =>
        IF built.V < 8
            THEN ~HeaderDecoded /\ Raised(err) /\ io_log[4].arg >= 0
            ELSE io_log[4] = Read(built.V - 8)

\* C4: when the file holds fewer bytes than the entry's size from the
\* entry's position on, the extraction fails: no value is returned.
C4_ShortEntryReadFails ==
    (IsAsar /\ EntryRead /\ io_log[6].arg >= 0
        /\ Len(fs.bytes) < io_log[5].arg + io_log[6].arg)
    => (asar_dict = Unset /\ (CallOver => Raised(err)))

\* C5: when the name is no key of the decoded header's top-level "files"
\* map, the lookup fails with the ProcessorError "Can't find package JSON",
\* nothing is sought or read on the handle for the entry, no value is
\* returned, and the handle is closed once get_asar_info is over.
C5_MissingEntryIsLookupError ==
    (IsAsar /\ LookupOver /\ ~HasEntry(json_header, env.package_json)) =>
        /\ pc # "read" /\ pc # "done"
        /\ err.type = "ProcessorError"
        /\ Member_of("Can't find package JSON", err.msg)
        /\ Len(io_log) = 4
        /\ package_json = Unset /\ asar_dict = Unset
        /\ CallOver => asar_file.state = "closed"

\* C5 witness: the flat header holds "a", "z" was asked for, and the run
\* failed with the handle closed.
C5_Witness ==
    /\ IsAsar /\ pc = "failed" /\ HeaderDecoded
    /\ built.kind = "flat" /\ env.package_json = N_z
    /\ asar_file.state = "closed"

\* C6: in an archive whose size field holds V >= 8 and whose file holds the
\* whole header, the data section starts at 16 + (V - 8); the bytes decoded
\* for the entry {"size":N,"offset":"K"} are the file's bytes
\* [base + K, base + K + N) when the file holds them; and from an archive
\* built whole around a JSON text the value returned is that text's value.
C6_EntryBytesAtBasePlusOffset ==
    LET base == 16 + (built.V - 8)
        first == base + built.K
    IN  (IsAsar /\ HeaderDecoded /\ built.V >= 8 /\ Len(fs.bytes) >= base) =>
            /\ base_offset = base
            /\ (EntryRead /\ built.kind = "flat" /\ Len(fs.bytes) >= first + built.N) =>
                  /\ entry_bytes = [i \in 1..built.N |-> fs.bytes[first + i]]
                  /\ io_log[5] = Seek(first)
                  /\ io_log[6] = Read(built.N)
            /\ (pc \in {"exit", "main_result"}
                  /\ built.kind = "flat" /\ env.package_json = N_a
                  /\ built.V = built.trueV /\ Len(fs.bytes) = built.full /\ built.json) =>
                  /\ asar_dict = built.value
                  /\ ~Raised(err)

\* C6 witness: an archive with filler before the entry returned the entry's
\* JSON object.
C6_Witness ==
    /\ IsAsar /\ pc = "main_result" /\ ~Raised(err)
    /\ built.K > 0 /\ built.V = built.trueV
    /\ asar_dict = Obj(K_version :> Str(<<49>>))

\* C7: on a readable file shorter than 8 bytes the opener fails in its own
\* size-field check, with its own ProcessorError.
C7_ShortFileFailsInOwnCheck ==
    (IsAsar /\ fs.readable /\ Len(fs.bytes) < 8 /\ pc = "main_result" /\ Len(io_log) >= 2)
    => (err.type = "ProcessorError" /\ Member_of("Can't determine header size", err.msg))

\* C8: a name that is a key only of a nested "files" map, or a "/"-joined
\* path to a nested entry, is not found: no entry is taken, nothing is read
\* for it, no value is returned; a top-level name is found as it stands.
C8_LookupIsFlat ==
    (IsAsar /\ LookupOver /\ built.kind = "nested") =>
        IF env.package_json = N_d
            THEN package_json = json_header.m[K_files].m[N_d]
            ELSE /\ package_json = Unset
                 /\ asar_dict = Unset
                 /\ Len(io_log) = 4
                 /\ pc # "read" /\ pc # "done"
                 /\ err.type = "ProcessorError"

\* C8 witness: the header holds "a" under the directory "d" only, "d/a" was
\* asked for, and the run failed.
C8_Witness ==
    /\ IsAsar /\ pc = "failed" /\ HeaderDecoded
    /\ built.kind = "nested" /\ env.package_json = N_d_a
    /\ N_a \in DOMAIN FilesOf(FilesOf(json_header)[N_d])

\* C9: once main is over after get_asar_info returned a JSON object, the run
\* ended well and version is the object's value for version_key when it has
\* that key, UNKNOWN_VERSION when it has not.
C9_VersionOrSentinel ==
    (IsAsar /\ pc \in {"done", "failed"} /\ asar_dict.t = "obj") =>
        /\ pc = "done"
        /\ ~Raised(err)
        /\ env.version_key \in DOMAIN asar_dict.m =>
              env.version = asar_dict.m[env.version_key]
        /\ env.version_key \notin DOMAIN asar_dict.m =>
              env.version = Str(UNKNOWN_VERSION)

\* C9 witness: package.json holds no "version" key and main ended well with
\* the sentinel.
C9_Witness ==
    /\ IsAsar /\ pc = "done"
    /\ env.version_key = K_version /\ K_version \notin DOMAIN asar_dict.m
    /\ env.version = Str(UNKNOWN_VERSION)

\* an element below the root whose tag is the key and whose text is not
\* blank, or that has a non-empty attribute named by the key
Findable(e) ==
    \/ e.tag = TARGET_KEY /\ e.text.t = "str" /\ Len(Strip(e.text.s)) > 0
    \/ Truthy(e.attr)

\* C10: when some element below the root has the key as its tag with
\* non-blank text, or as a non-empty attribute, the search returns a
\* non-empty value.
C10_SearchFindsAnyDescendant ==
    (IsPkgInfo /\ pc # "pkg_main" /\ xml[1].tag # TARGET_KEY
        /\ \E i \in 2..Len(xml) : Findable(xml[i]))
    => Truthy(target_value)
====
